---- MODULE Spec2Model ----
(***************************************************************************)
(* SystematicEngineeringFramework (tools/systematic_engineering_core.py):  *)
(* traceability validation over the markdown files of docs/, and template  *)
(* driven module generation with specification extraction.                 *)
(*                                                                         *)
(* Text is modelled at character level: a document's content, a            *)
(* traceability ID and an extracted window are sequences of one-character  *)
(* strings, so that the regular expression, the substring tests and the    *)
(* split / join of the source are computed as the source computes them.    *)
(* Environment assumption: every file that exists is readable UTF-8 text.  *)
(***************************************************************************)
EXTENDS Integers, Sequences, FiniteSets, TLC

VARIABLES fs, config, templates, validation_issues, result, running

vars == <<fs, config, templates, validation_issues, result, running>>

----------------------------------------------------------------------------
(* Characters and strings                                                  *)

NL == "\n"
BS == "\\"

Digits == {"0", "1", "2", "3", "4", "5", "6", "7", "8", "9"}
Uppers == {"A", "B", "C", "D", "E", "F", "G", "H", "I", "J", "K", "L", "M",
           "N", "O", "P", "Q", "R", "S", "T", "U", "V", "W", "X", "Y", "Z"}

Range(s) == {s[i] : i \in DOMAIN s}

\* s[a+1 .. b] in 1-based terms, i.e. Python's s[a:b] for 0 <= a, b <= len(s)
Slice(s, a, b) == IF b <= a THEN <<>> ELSE SubSeq(s, a + 1, b)

\* sub occurs in s starting at 1-based position p
OccursAt(sub, s, p) ==
    /\ p >= 1
    /\ p + Len(sub) - 1 <= Len(s)
    /\ \A k \in 1..Len(sub) : s[p + k - 1] = sub[k]

\* Python's `sub in s` on strings
Contains(sub, s) == \E p \in 1..(Len(s) + 1) : OccursAt(sub, s, p)

\* Python's s.split(sep), sep non-empty: leftmost non-overlapping separators
RECURSIVE SplitFrom(_, _, _, _)
SplitFrom(s, sep, p, start) ==
    IF p + Len(sep) - 1 > Len(s)
    THEN <<Slice(s, start - 1, Len(s))>>
    ELSE IF OccursAt(sep, s, p)
         THEN <<Slice(s, start - 1, p - 1)>>
                  \o SplitFrom(s, sep, p + Len(sep), p + Len(sep))
         ELSE SplitFrom(s, sep, p + 1, start)

Split(s, sep) == SplitFrom(s, sep, 1, 1)

\* Python's sep.join(parts)
RECURSIVE Join(_, _)
Join(sep, parts) ==
    IF parts = <<>> THEN <<>>
    ELSE IF Len(parts) = 1 THEN parts[1]
    ELSE parts[1] \o sep \o Join(sep, Tail(parts))

----------------------------------------------------------------------------
(* The pattern r'T\d+-[A-Z]+-\d+' and re.findall                           *)

\* first position q >= p with s[q] not in class (Len(s)+1 if none): greedy +
RECURSIVE SpanEnd(_, _, _)
SpanEnd(s, p, class) ==
    IF p <= Len(s) /\ s[p] \in class THEN SpanEnd(s, p + 1, class) ELSE p

\* position just after the match starting at p, or 0 if none starts at p.
\* No backtracking can succeed: each greedy class is followed by a character
\* outside the class.
MatchEnd(s, p) ==
    IF ~(p <= Len(s) /\ s[p] = "T") THEN 0
    ELSE LET d1 == SpanEnd(s, p + 1, Digits) IN
         IF d1 = p + 1 \/ ~(d1 <= Len(s) /\ s[d1] = "-") THEN 0
         ELSE LET u == SpanEnd(s, d1 + 1, Uppers) IN
              IF u = d1 + 1 \/ ~(u <= Len(s) /\ s[u] = "-") THEN 0
              ELSE LET d2 == SpanEnd(s, u + 1, Digits) IN
                   IF d2 = u + 1 THEN 0 ELSE d2

RECURSIVE FindAllFrom(_, _)
FindAllFrom(s, p) ==
    IF p > Len(s) THEN <<>>
    ELSE LET e == MatchEnd(s, p) IN
         IF e = 0 THEN FindAllFrom(s, p + 1)
         ELSE <<Slice(s, p - 1, e - 1)>> \o FindAllFrom(s, e)

FindAll(s) == FindAllFrom(s, 1)

----------------------------------------------------------------------------
(* Dictionaries, the documentation directory                               *)

\* dict.get(key, default): a dictionary is a function on the keys it holds
DictGet(d, key, default) == IF key \in DOMAIN d THEN d[key] ELSE default

MdSuffix == <<".", "m", "d">>

EndsWith(s, suffix) ==
    Len(s) >= Len(suffix) /\ OccursAt(suffix, s, Len(s) - Len(suffix) + 1)

\* self.docs_dir.glob("*.md"): the markdown entries in directory iteration
\* order; a missing root yields nothing (pathlib raises no error for it)
Glob(dir) ==
    IF dir.exists
    THEN SelectSeq(dir.entries, LAMBDA e : EndsWith(e.name, MdSuffix))
    ELSE <<>>

\* (self.docs_dir / target).exists() for a plain file name
TargetExists(dir, target) ==
    dir.exists /\ \E i \in DOMAIN dir.entries : dir.entries[i].name = target

----------------------------------------------------------------------------
(* ValidationIssue and the three validation passes                         *)

ValidationIssue(severity, category, text, arg) ==
    [severity |-> severity, category |-> category,
     message |-> [text |-> text, arg |-> arg]]

\* lines 231-236: the IDs of every scanned file, in scan order
RECURSIVE IdsInFiles(_)
IdsInFiles(files) ==
    IF files = <<>> THEN <<>>
    ELSE FindAll(Head(files).content) \o IdsInFiles(Tail(files))

\* mutant: an ID already reported as a duplicate is not reported again
RECURSIVE DuplicateIdsOnce(_, _, _)
DuplicateIdsOnce(ids, found_ids, reported) ==
    IF ids = <<>> THEN <<>>
    ELSE IF Head(ids) \in found_ids
         THEN (IF Head(ids) \in reported THEN <<>> ELSE <<Head(ids)>>)
              \o DuplicateIdsOnce(Tail(ids), found_ids, reported \cup {Head(ids)})
         ELSE DuplicateIdsOnce(Tail(ids), found_ids \cup {Head(ids)}, reported)

DuplicateIdsReportedOnce(ids, found_ids) == DuplicateIdsOnce(ids, found_ids, {})

\* lines 238-242: found_ids / duplicate_ids over the IDs in scan order
RECURSIVE DuplicateIds(_, _)
DuplicateIds(ids, found_ids) ==
    IF ids = <<>> THEN <<>>
    ELSE IF Head(ids) \in found_ids
         THEN <<Head(ids)>> \o DuplicateIds(Tail(ids), found_ids)
         ELSE DuplicateIds(Tail(ids), found_ids \cup {Head(ids)})

ValidateTraceabilityIds(dir) ==
    LET duplicate_ids == DuplicateIds(IdsInFiles(Glob(dir)), {})
    IN  [i \in 1..Len(duplicate_ids) |->
            ValidationIssue("error", "duplicate_id",
                            "Duplicate traceability ID: ", duplicate_ids[i])]

\* mutant: a name listed more than once is checked once, at its last entry
RECURSIVE MissingTargetsOnce(_, _)
MissingTargetsOnce(dir, targets) ==
    IF targets = <<>> THEN <<>>
    ELSE (IF TargetExists(dir, Head(targets))
             \/ Head(targets) \in Range(Tail(targets)) THEN <<>>
          ELSE <<ValidationIssue("warning", "missing_file",
                                 "Referenced file missing: ", Head(targets))>>)
         \o MissingTargetsOnce(dir, Tail(targets))

RECURSIVE MissingTargets(_, _)
MissingTargets(dir, targets) ==
    IF targets = <<>> THEN <<>>
    ELSE (IF TargetExists(dir, Head(targets)) THEN <<>>
          ELSE <<ValidationIssue("warning", "missing_file",
                                 "Referenced file missing: ", Head(targets))>>)
         \o MissingTargets(dir, Tail(targets))

ValidateCrossReferences(dir, cfg) ==
    MissingTargets(dir,
        DictGet(DictGet(cfg, "validation_rules", <<>>),
                "cross_reference_targets", <<>>))

\* the pass reads required_derivation_fields and appends nothing
ValidateDerivations(dir, cfg) == <<>>

\* mutant: the list is not cleared at the start of the run
RunValidationAccumulating(old_issues, dir, cfg) ==
    old_issues \o ValidateTraceabilityIds(dir)
        \o ValidateCrossReferences(dir, cfg) \o ValidateDerivations(dir, cfg)

\* lines 175-184: the list rebuilt by one run
RunValidation(old_issues, dir, cfg) ==
    ValidateTraceabilityIds(dir) \o ValidateCrossReferences(dir, cfg)
        \o ValidateDerivations(dir, cfg)

\* mutant: any issue, whatever its severity, counts as an error
HasAnyIssue(issues) == issues # <<>>

HasError(issues) == \E i \in DOMAIN issues : issues[i].severity = "error"

SummaryShown == 5

CountSeverity(issues, sev) ==
    Cardinality({i \in DOMAIN issues : issues[i].severity = sev})

\* _print_validation_summary: the counts, then the first five issues
ValidationSummary(issues) ==
    [errors |-> CountSeverity(issues, "error"),
     warnings |-> CountSeverity(issues, "warning"),
     shown |-> SubSeq(issues, 1, IF Len(issues) < SummaryShown
                                 THEN Len(issues) ELSE SummaryShown)]

----------------------------------------------------------------------------
(* _extract_specifications                                                 *)

ContextBefore == 2
ContextEnd == 5

\* content.split('\\n'): the separator written in the source is the two
\* characters backslash and n, not the newline character
LineSeparator == <<BS, "n">>

Max(a, b) == IF a >= b THEN a ELSE b
Min(a, b) == IF a <= b THEN a ELSE b

\* lines 285-292: the first line holding trace_id (0-based i, 0 <= i < len)
RECURSIVE FirstLineWith(_, _, _)
FirstLineWith(lines, trace_id, i) ==
    IF i >= Len(lines) THEN -1
    ELSE IF Contains(trace_id, lines[i + 1]) THEN i
    ELSE FirstLineWith(lines, trace_id, i + 1)

\* mutant: the scan of the lines does not stop at the first match
RECURSIVE ContextsOfAllLines(_, _, _)
ContextsOfAllLines(lines, trace_id, i) ==
    IF i >= Len(lines) THEN <<>>
    ELSE (IF Contains(trace_id, lines[i + 1])
          THEN <<Join(LineSeparator,
                      Slice(lines, Max(0, i - ContextBefore),
                            Min(Len(lines), i + ContextEnd)))>>
          ELSE <<>>)
         \o ContextsOfAllLines(lines, trace_id, i + 1)

ContextOfNoBreak(content, trace_id) ==
    IF ~Contains(trace_id, content) THEN <<>>
    ELSE ContextsOfAllLines(Split(content, LineSeparator), trace_id, 0)

\* lines 282-292 for one (document, trace_id): zero or one context
ContextOf(content, trace_id) ==
    IF ~Contains(trace_id, content) THEN <<>>
    ELSE LET lines == Split(content, LineSeparator)
             i == FirstLineWith(lines, trace_id, 0)
         IN  IF i < 0 THEN <<>>
             ELSE LET start == Max(0, i - ContextBefore)
                      end == Min(Len(lines), i + ContextEnd)
                  IN  <<Join(LineSeparator, Slice(lines, start, end))>>

\* the inner loop: for trace_id in traceability_ids
RECURSIVE ContextsInFile(_, _)
ContextsInFile(content, traceability_ids) ==
    IF traceability_ids = <<>> THEN <<>>
    ELSE ContextOf(content, Head(traceability_ids))
            \o ContextsInFile(content, Tail(traceability_ids))

\* the outer loop: for doc_file in self.docs_dir.glob("*.md")
RECURSIVE ContextsInFiles(_, _)
ContextsInFiles(files, traceability_ids) ==
    IF files = <<>> THEN <<>>
    ELSE ContextsInFile(Head(files).content, traceability_ids)
            \o ContextsInFiles(Tail(files), traceability_ids)

ExtractSpecifications(dir, traceability_ids) ==
    ContextsInFiles(Glob(dir), traceability_ids)

----------------------------------------------------------------------------
(* Templates                                                               *)

\* HalImplementationTemplate._build_traceability_comment
BuildTraceabilityComment(gen_config, specs) ==
    LET ids == DictGet(gen_config, "traceability_ids", <<>>)
    IN  IF ids = <<>>
        THEN [generic |-> TRUE, ids |-> <<>>, from_spec |-> FALSE,
              trace |-> <<>>]
        ELSE [generic |-> FALSE, ids |-> ids, from_spec |-> specs # <<>>,
              trace |-> IF specs # <<>> THEN specs[1] ELSE <<>>]

HalGenerate(gen_config, specs) ==
    [template |-> "HalImplementationTemplate",
     struct_name |-> DictGet(gen_config, "target_struct", "GenericHalImpl"),
     trait_impl |-> DictGet(gen_config, "trait_impl", "GenericTrait"),
     comment |-> BuildTraceabilityComment(gen_config, specs)]

ControlGenerate(gen_config, specs) ==
    [template |-> "ControlSystemTemplate",
     struct_name |-> DictGet(gen_config, "target_struct", "GenericController"),
     trait_impl |-> "",
     comment |-> [generic |-> TRUE, ids |-> <<>>, from_spec |-> FALSE,
                  trace |-> <<>>]]

\* a CodeTemplate registered by the caller: its text is its own business
CustomGenerate(gen_config, specs) ==
    [template |-> "CustomTemplate",
     struct_name |-> DictGet(gen_config, "target_struct", ""),
     trait_impl |-> "",
     comment |-> [generic |-> TRUE, ids |-> <<>>, from_spec |-> FALSE,
                  trace |-> <<>>]]

\* template.generate(generator_config, specs), dispatched on the class
Generate(template, gen_config, specs) ==
    CASE template = "HalImplementationTemplate" -> HalGenerate(gen_config, specs)
      [] template = "ControlSystemTemplate" -> ControlGenerate(gen_config, specs)
      [] OTHER -> CustomGenerate(gen_config, specs)

\* self.templates as built by __init__
BuiltinTemplates ==
    [n \in {"hal_implementation", "control_system"} |->
        IF n = "hal_implementation" THEN "HalImplementationTemplate"
        ELSE "ControlSystemTemplate"]

----------------------------------------------------------------------------
(* Inputs: documentation trees and configurations                          *)

MaxDocs == 2
MaxTargets == 2
MaxIds == 2
MaxLines == 9
MaxRequest == 2

IdA == <<"T", "1", "-", "A", "-", "1">>
IdB == <<"T", "2", "-", "B", "-", "2">>

FileR == <<"r", ".", "t", "x", "t">>
DocNames == <<<<"a", ".", "m", "d">>, <<"b", ".", "m", "d">>,
              <<"c", ".", "m", "d">>, <<"d", ".", "m", "d">>>>

MissingRoot == [exists |-> FALSE, entries |-> <<>>]

\* a root holding the first markdown names with the given contents, in that
\* directory order, and r.txt after them when with_r
Tree(contents, with_r) ==
    [exists |-> TRUE,
     entries |-> [i \in 1..Len(contents) |->
                     [name |-> DocNames[i], content |-> contents[i]]]
                 \o (IF with_r THEN <<[name |-> FileR, content |-> <<>>]>>
                     ELSE <<>>)]

SeqsUpTo(S, n) == UNION {[1..k -> S] : k \in 0..n}

\* the documents of the lifecycle specification: every one cites both IDs
MainContent == <<"s", "e", "e", " ">> \o IdA \o <<NL>> \o IdB \o <<NL>>

MainTrees ==
    {MissingRoot} \cup
    {Tree([i \in 1..k |-> MainContent], r) : k \in 0..MaxDocs, r \in BOOLEAN}

MainGenerators ==
    <<[name |-> "hal",
       cfg |-> [template |-> "hal_implementation", target_struct |-> "FooImpl",
                trait_impl |-> "BarTrait", traceability_ids |-> <<IdA>>]],
      [name |-> "ctl",
       cfg |-> [template |-> "control_system",
                target_struct |-> "AttitudeController"]],
      [name |-> "plugin",
       cfg |-> [template |-> "custom", traceability_ids |-> <<IdB, IdA>>]],
      [name |-> "bare",
       cfg |-> [target_struct |-> "Bare", traceability_ids |-> <<IdB>>]]>>

Config(generators, targets) ==
    [project_name |-> "demo",
     code_generators |-> generators,
     validation_rules |-> [cross_reference_targets |-> targets,
                           required_derivation_fields |-> <<>>]]

MainConfigs ==
    {Config(MainGenerators, t) : t \in SeqsUpTo({DocNames[2], FileR}, MaxTargets)}

\* the documents of the scan specification: up to MaxIds IDs, one per line
ScanContents == {Join(<<NL>>, ids) : ids \in SeqsUpTo({IdA, IdB}, MaxIds)}

ScanTrees == {Tree(c, FALSE) : c \in SeqsUpTo(ScanContents, MaxDocs)}

ScanConfigs == {Config(MainGenerators, <<FileR>>)}

\* the documents of the extraction specification: len lines joined by sep,
\* IdA cited on line n (0: nowhere) and, with again, on the last line too;
\* IdB cited on line 1 with b
LineText(k, len, n, again, b) ==
    (IF k = n \/ (again /\ k = len) THEN <<"-", " ">> \o IdA ELSE <<"x">>)
        \o (IF b /\ k = 1 THEN <<" ">> \o IdB ELSE <<>>)

LinedContent(len, n, again, b, sep) ==
    Join(sep, [k \in 1..len |-> LineText(k, len, n, again, b)])

LinedContents ==
    {LinedContent(len, n, again, b, sep) :
        len \in 1..MaxLines, n \in 0..MaxLines, again \in BOOLEAN, b \in BOOLEAN,
        sep \in {<<NL>>, <<BS, "n">>}}

SideFirst == IdB \o <<" ">> \o IdA
SideLast == <<"x">> \o <<NL>> \o IdA

ExtractTrees ==
    {Tree(<<c>>, FALSE) : c \in LinedContents}
    \cup {Tree(<<c, SideLast>>, FALSE) : c \in LinedContents}
    \cup {Tree(<<SideFirst, c>>, FALSE) : c \in LinedContents}

Requests == SeqsUpTo({IdA, IdB}, MaxRequest)

\* one generator, whose traceability_ids are the requested list
ExtractConfigs ==
    {Config(<<[name |-> "hal",
               cfg |-> [template |-> "hal_implementation",
                        traceability_ids |-> r]]>>, <<>>) : r \in Requests}

----------------------------------------------------------------------------
(* The framework object and its operations                                 *)

\* what the call just made handed back: its outcome ("return", or "exit"
\* for sys.exit(1)), the value returned, what it printed, the calls it made
\* to the extractor and the templates it rendered with; held_before is
\* history kept for the properties: the number of issues the object held
\* when validate_all was called
NoResult ==
    [op |-> "none", arg |-> "", blocking |-> FALSE, outcome |-> "return",
     none |-> FALSE, code |-> <<>>, issues |-> <<>>, names |-> <<>>,
     specs |-> <<>>, printed |-> <<>>, summary |-> <<>>,
     extract_calls |-> <<>>, rendered |-> <<>>, held_before |-> 0]

Line(text, args) == [text |-> text, args |-> args]

\* __init__: the configuration is loaded, no issue is held, the two
\* built-in templates are registered
InitWith(trees, configs) ==
    /\ fs \in trees
    /\ config \in configs
    /\ templates = BuiltinTemplates
    /\ validation_issues = <<>>
    /\ result = NoResult
    /\ running = TRUE

Init == InitWith(MainTrees, MainConfigs)

\* list(self.config.get("code_generators", {}).keys())
GeneratorNames(cfg) ==
    LET gens == DictGet(cfg, "code_generators", <<>>)
    IN  [i \in 1..Len(gens) |-> gens[i].name]

\* generators[module_name]
GeneratorConfig(cfg, module_name) ==
    LET gens == DictGet(cfg, "code_generators", <<>>)
    IN  gens[CHOOSE i \in 1..Len(gens) : gens[i].name = module_name].cfg

\* mutant: another built-in template is the default
TemplateNameOtherDefault(gen_config) ==
    DictGet(gen_config, "template", "control_system")

\* generator_config.get("template", "hal_implementation")
TemplateName(gen_config) == DictGet(gen_config, "template", "hal_implementation")

\* mutant: the lookup failure falls through to the default template
ReturnDefaultRendering(module_name, printed) ==
    [NoResult EXCEPT !.op = "generate_module", !.arg = module_name,
                     !.printed = printed,
                     !.extract_calls = <<<<>>>>,
                     !.rendered = <<"hal_implementation">>,
                     !.code = <<HalGenerate([target_struct |-> ""], <<>>)>>]

\* print the diagnostic, return None
ReturnNone(module_name, printed) ==
    [NoResult EXCEPT !.op = "generate_module", !.arg = module_name,
                     !.none = TRUE, !.printed = printed]

ValidateAll(blocking) ==
    /\ running
    /\ LET issues == RunValidation(validation_issues, fs, config)
           exits == blocking /\ HasError(issues)
       IN  /\ validation_issues' = issues
           /\ running' = ~exits
           /\ result' = [NoResult EXCEPT
                  !.op = "validate_all", !.blocking = blocking,
                  !.outcome = IF exits THEN "exit" ELSE "return",
                  !.issues = IF exits THEN <<>> ELSE issues,
                  !.summary = <<ValidationSummary(issues)>>,
                  !.held_before = Len(validation_issues)]
    /\ UNCHANGED <<fs, config, templates>>

GenerateModule(module_name) ==
    /\ running
    /\ LET names == GeneratorNames(config) IN
       IF module_name \notin Range(names)
       THEN result' = ReturnNone(module_name,
                <<Line("No generator configured for", <<module_name>>),
                  Line("Available generators", names)>>)
       ELSE LET generator_config == GeneratorConfig(config, module_name)
                template_name == TemplateName(generator_config)
            IN  IF template_name \notin DOMAIN templates
                THEN result' = ReturnNone(module_name,
                         <<Line("Unknown template", <<template_name>>)>>)
                ELSE LET ids == DictGet(generator_config, "traceability_ids", <<>>)
                         specs == ExtractSpecifications(fs, ids)
                         generated_code == Generate(templates[template_name],
                                                    generator_config, specs)
                     IN  result' = [NoResult EXCEPT
                             !.op = "generate_module", !.arg = module_name,
                             !.code = <<generated_code>>,
                             !.specs = specs,
                             !.extract_calls = <<ids>>,
                             !.rendered = <<template_name>>,
                             !.printed = <<Line("Generated complete module", <<>>)>>]
    /\ UNCHANGED <<fs, config, templates, validation_issues, running>>

GetAvailableGenerators ==
    /\ running
    /\ result' = [NoResult EXCEPT !.op = "get_available_generators",
                                  !.names = GeneratorNames(config)]
    /\ UNCHANGED <<fs, config, templates, validation_issues, running>>

AddCustomTemplate(name, template) ==
    /\ running
    /\ templates' = [n \in DOMAIN templates \cup {name} |->
                        IF n = name THEN template ELSE templates[n]]
    /\ result' = [NoResult EXCEPT !.op = "add_custom_template", !.arg = name]
    /\ UNCHANGED <<fs, config, validation_issues, running>>

\* the documentation directory is edited between two calls (every call
\* reads it from disk again); result is what the call just made handed
\* back, so no call's outcome is pending once the directory has moved on
DocsChange(trees) ==
    /\ running
    /\ fs' \in trees \ {fs}
    /\ result' = NoResult
    /\ UNCHANGED <<config, templates, validation_issues, running>>

ModuleNames == {"hal", "ctl", "plugin", "bare", "unknown"}

Next ==
    \/ \E blocking \in BOOLEAN : ValidateAll(blocking)
    \/ \E module_name \in ModuleNames : GenerateModule(module_name)
    \/ GetAvailableGenerators
    \/ \E name \in {"custom", "control_system"} :
          AddCustomTemplate(name, "CustomTemplate")
    \/ DocsChange(MainTrees)

Spec == Init /\ [][Next]_vars

\* the duplicate-ID scan over richer trees
InitScan == InitWith(ScanTrees, ScanConfigs)

NextScan == \E blocking \in BOOLEAN : ValidateAll(blocking)

SpecScan == InitScan /\ [][NextScan]_vars

\* the extractor over documents of several lines
InitExtract == InitWith(ExtractTrees, ExtractConfigs)

NextExtract == GenerateModule("hal")

SpecExtract == InitExtract /\ [][NextExtract]_vars

----------------------------------------------------------------------------
(* Properties                                                              *)

Issues(category) ==
    SelectSeq(validation_issues, LAMBDA x : x.category = category)

Count(seq, x) == Cardinality({i \in DOMAIN seq : seq[i] = x})

ConfiguredNames == {config.code_generators[i].name :
                        i \in DOMAIN config.code_generators}

ConfigOf(name) ==
    config.code_generators[
        CHOOSE i \in DOMAIN config.code_generators :
            config.code_generators[i].name = name].cfg

Targets == config.validation_rules.cross_reference_targets

Absent(target) ==
    ~fs.exists \/ \A i \in DOMAIN fs.entries : fs.entries[i].name # target

Mentions(x) ==
    \E i \in DOMAIN result.printed : x \in Range(result.printed[i].args)

\* C1: validate_all(blocking) ends the process exactly when blocking is set
\* and the run collected an error-severity issue; in every other case it
\* returns the list it holds to the caller, and nothing else ends the process.
C1_ExitIffBlockingError ==
    /\ result.op = "validate_all" =>
          /\ result.outcome \in {"exit", "return"}
          /\ result.outcome = "exit" <=>
                (result.blocking /\ \E i \in DOMAIN validation_issues :
                                        validation_issues[i].severity = "error")
          /\ result.outcome = "exit" <=> ~running
          /\ result.outcome = "return" => result.issues = validation_issues
    /\ ~running => result.op = "validate_all"

\* C1 witness: a blocking run that found only warnings and returned them
C1_Witness ==
    /\ result.op = "validate_all" /\ result.blocking
    /\ result.outcome = "return" /\ running
    /\ result.issues # <<>>
    /\ \A i \in DOMAIN result.issues : result.issues[i].severity = "warning"

\* C3: the list held (and returned) after a validate_all run is exactly what
\* that run finds on the tree and configuration of that call: nothing of an
\* earlier run is left in it.
C3_NoAccumulation ==
    result.op = "validate_all" =>
        /\ validation_issues =
              ValidateTraceabilityIds(fs) \o ValidateCrossReferences(fs, config)
        /\ Len(validation_issues) =
              Len(IdsInFiles(Glob(fs))) - Cardinality(Range(IdsInFiles(Glob(fs))))
              + Cardinality({i \in DOMAIN Targets : Absent(Targets[i])})
        /\ result.outcome = "return" => result.issues = validation_issues

\* C3 witness: a run made, after a template was registered, on an object
\* that held three issues or more of an earlier run, and that holds only
\* the one issue it found itself
C3_Witness ==
    /\ result.op = "validate_all" /\ result.outcome = "return"
    /\ templates # BuiltinTemplates
    /\ result.held_before >= 3 /\ Len(validation_issues) = 1

\* C4 (as claimed): a run on a missing documentation root does not return
\* an issue list to the caller and reports no missing_file warning.
C4_MissingRootIsFatal ==
    (result.op = "validate_all" /\ ~fs.exists) =>
        /\ result.outcome # "return"
        /\ Issues("missing_file") = <<>>

\* C5: a generate_module call whose name is not configured, or whose
\* configured template name is not registered, returns None without
\* rendering or extracting, and leaves the registry and the issue list as
\* they were.
C5_LookupFailureReturnsNone ==
    [][(/\ result'.op = "generate_module"
        /\ \/ result'.arg \notin ConfiguredNames
           \/ /\ "template" \in DOMAIN ConfigOf(result'.arg)
              /\ ConfigOf(result'.arg).template \notin DOMAIN templates)
       => /\ result'.none /\ result'.outcome = "return" /\ running'
          /\ result'.code = <<>> /\ result'.rendered = <<>>
          /\ result'.extract_calls = <<>> /\ result'.specs = <<>>
          /\ templates' = templates
          /\ validation_issues' = validation_issues]_vars

\* C5 witness: a configured generator whose template is not registered
C5_Witness ==
    /\ result.op = "generate_module" /\ result.arg = "plugin"
    /\ result.none /\ "custom" \notin DOMAIN templates

\* C6 (as claimed): the diagnostic of every lookup failure names what was
\* requested and what is available.
C6_DiagnosticNamesRequestedAndAvailable ==
    (result.op = "generate_module" /\ result.none) =>
        IF result.arg \notin ConfiguredNames
        THEN /\ Mentions(result.arg)
             /\ \A g \in ConfiguredNames : Mentions(g)
        ELSE /\ Mentions(DictGet(ConfigOf(result.arg), "template", "hal_implementation"))
             /\ \A t \in DOMAIN templates : Mentions(t)

C10_OneWarningPerAbsentEntry ==
    result.op = "validate_all" =>
        LET absent == SelectSeq(Targets, Absent)
        IN  /\ validation_issues = Issues("duplicate_id") \o Issues("missing_file")
            /\ Issues("missing_file") =
                  [i \in 1..Len(absent) |->
                      [severity |-> "warning", category |-> "missing_file",
                       message |-> [text |-> "Referenced file missing: ",
                                    arg |-> absent[i]]]]
            /\ \A i \in DOMAIN validation_issues :
                  validation_issues[i].category = "duplicate_id"
                      => validation_issues[i].severity = "error"

\* C10 witness: an absent name listed twice gave two warnings after the
\* duplicate_id errors
C10_Witness ==
    /\ result.op = "validate_all"
    /\ Len(Targets) = 2 /\ Targets[1] = Targets[2] /\ Absent(Targets[1])
    /\ Len(Issues("missing_file")) = 2
    /\ Issues("duplicate_id") # <<>>

\* C2: one run reports, for every ID, one duplicate_id error per occurrence
\* after the first: occurrences minus one, whichever files hold them and in
\* whatever order the files are scanned; none for an ID that occurs once.
C2_DuplicatesAreOccurrencesMinusOne ==
    result.op = "validate_all" =>
        LET matches(i) == FindAll(fs.entries[i].content)
            RECURSIVE occ(_, _)
            occ(id, i) == IF i = 0 THEN 0
                          ELSE Count(matches(i), id) + occ(id, i - 1)
            ids == UNION {Range(matches(i)) : i \in DOMAIN fs.entries}
            reported(id) == Cardinality({k \in DOMAIN Issues("duplicate_id") :
                                Issues("duplicate_id")[k].message.arg = id})
        IN  /\ \A id \in ids \cup {IdA, IdB} :
                  reported(id) = Max(0, occ(id, Len(fs.entries)) - 1)
            /\ \A k \in DOMAIN Issues("duplicate_id") :
                  /\ Issues("duplicate_id")[k].severity = "error"
                  /\ Issues("duplicate_id")[k].message.arg \in ids

\* C2 witness: an ID that occurs three times, in two files, reported twice,
\* beside an ID that occurs once and is not reported
C2_Witness ==
    /\ result.op = "validate_all"
    /\ Len(fs.entries) = 2
    /\ Count(FindAll(fs.entries[1].content), IdA) = 1
    /\ Count(FindAll(fs.entries[2].content), IdA) = 2
    /\ Count(FindAll(fs.entries[1].content), IdB) = 1
    /\ Len(Issues("duplicate_id")) = 2

\* the lines of a document as the claims count them: separated by newlines
TextLines(content) == Split(content, <<NL>>)

\* the 1-based number of the first line holding id (pre: some line does)
FirstLine(content, id) ==
    CHOOSE n \in 1..Len(TextLines(content)) :
        /\ Contains(id, TextLines(content)[n])
        /\ \A m \in 1..(n - 1) : ~Contains(id, TextLines(content)[m])

\* C8 (as claimed): for one document and one requested ID, the window is
\* lines max(1, n-2) to min(L, n+5) around the first line n holding the ID,
\* and there is no window when the ID occurs nowhere.
C8_WindowTwoBeforeFiveAfter ==
    (/\ result.op = "generate_module" /\ result.rendered # <<>>
     /\ Len(fs.entries) = 1 /\ Len(result.extract_calls[1]) = 1) =>
        LET content == fs.entries[1].content
            id == result.extract_calls[1][1]
            lines == TextLines(content)
        IN  IF \A n \in DOMAIN lines : ~Contains(id, lines[n])
            THEN result.specs = <<>>
            ELSE LET n == FirstLine(content, id)
                 IN  result.specs =
                        <<Join(<<NL>>, SubSeq(lines, Max(1, n - 2),
                                              Min(Len(lines), n + 5)))>>

\* the (document, ID) pairs with the ID in the document
MatchedPairs(docs, request) ==
    {a \in (DOMAIN docs) \X Range(request) : Contains(a[2], docs[a[1]].content)}

\* the (document, list position) pairs with the listed ID in the document
MatchedPositions(docs, request) ==
    {a \in (DOMAIN docs) \X (DOMAIN request) :
        Contains(request[a[2]], docs[a[1]].content)}

\* document first, then list position
Before(a, b) == a[1] < b[1] \/ (a[1] = b[1] /\ a[2] <= b[2])

\* the k-th pair of the set in that order
Nth(pairs, k) ==
    CHOOSE a \in pairs : Cardinality({b \in pairs : Before(b, a)}) = k

====
